---- MODULE Spec2Model ----
(***************************************************************************)
(* Model of wave_geometry's rotation math kernels (util/math/math.hpp) and *)
(* of the RelativeRotation leaf (geometry/leaf/RelativeRotation.hpp).      *)
(*                                                                         *)
(* Scalars are binary floating-point numbers of reduced width: a sign, a   *)
(* significand of Digits bits and an exponent in MinExp..MaxExp, with      *)
(* signed zeros, subnormals, infinities, NaN and round-to-nearest-even.    *)
(* The value of a finite scalar is s * m * 2^e.                            *)
(***************************************************************************)
EXTENDS Integers, Sequences, FiniteSets, TLC

\* std::numeric_limits<Scalar>::digits, scaled down
Digits == 13
\* largest exponent of the unit in the last place
MaxExp == 4
\* smallest exponent of the unit in the last place (subnormals live there)
MinExp == 3 - 4 * Digits

Pow2(k) == 2 ^ k

Max(a, b) == IF a >= b THEN a ELSE b
Min(a, b) == IF a <= b THEN a ELSE b

(***************************************************************************)
(* Scalar values.  The arithmetic is written as functions F[x] wrapped by  *)
(* operators: a function application evaluates its arguments once.         *)
(***************************************************************************)
Scalar == [c : {"fin", "inf", "nan"}, s : {1, -1}, m : Nat, e : Int]
Fin(s, m, e) == [c |-> "fin", s |-> s, m |-> m, e |-> e]
Zero(s) == Fin(s, 0, MinExp)
Inf(s) == [c |-> "inf", s |-> s, m |-> 0, e |-> 0]
NaN == [c |-> "nan", s |-> 1, m |-> 0, e |-> 0]

IsNaN(a) == a.c = "nan"
IsInf(a) == a.c = "inf"
IsFin(a) == a.c = "fin"
IsZero(a) == a.c = "fin" /\ a.m = 0

\* number of bits of a natural number
BitLen[n \in Nat] == IF n = 0 THEN 0 ELSE 1 + BitLen[n \div 2]

\* floor of the square root of a natural number, bit by bit from the top
ISqrtFrom[n \in Nat, r \in Nat, bit \in Nat] ==
    IF bit = 0 THEN r
    ELSE ISqrtFrom[n, IF (r + bit) * (r + bit) <= n THEN r + bit ELSE r, bit \div 2]
ISqrt(n) == ISqrtFrom[n, 0, Pow2(Digits + 1)]

\* M / p rounded to the nearest integer, ties to even; p a power of two >= 2
Nearest[M \in Nat, p \in Nat] ==
    IF M % p > p \div 2 \/ (M % p = p \div 2 /\ (M \div p) % 2 = 1)
    THEN M \div p + 1
    ELSE M \div p
\* the scalar s * m * 2^e for m up to 2^Digits
Carry[s \in {1, -1}, m \in Nat, e \in Int] ==
    IF m = 0 THEN Zero(s)
    ELSE IF m = Pow2(Digits)
         THEN (IF e + 1 > MaxExp THEN Inf(s) ELSE Fin(s, Pow2(Digits - 1), e + 1))
    ELSE IF e > MaxExp THEN Inf(s)
    ELSE Fin(s, m, e)
\* s * M * 2^E rounded to a significand with unit 2^e; L the bit length of M
RoundAt[s \in {1, -1}, M \in Nat, E \in Int, L \in Nat, e \in Int] ==
    IF e <= E
    THEN (IF e > MaxExp THEN Inf(s) ELSE Fin(s, M * Pow2(E - e), e))
    ELSE IF e - E > L + 1 THEN Zero(s)
    ELSE Carry[s, Nearest[M, Pow2(e - E)], e]
RoundLen[s \in {1, -1}, M \in Nat, E \in Int, L \in Nat] ==
    RoundAt[s, M, E, L, Max(E + L - Digits, MinExp)]
RoundF[s \in {1, -1}, M \in Nat, E \in Int] ==
    IF M = 0 THEN Zero(s) ELSE RoundLen[s, M, E, BitLen[M]]
\* The scalar nearest to s * M * 2^E, M a natural number.
Round(s, M, E) == RoundF[s, M, E]

\* a nonzero finite scalar with its significand shifted up to Digits bits
NormM(a) == a.m * Pow2(Digits - BitLen[a.m])
NormE(a) == a.e - (Digits - BitLen[a.m])

FromInt(n) == Round(IF n < 0 THEN -1 ELSE 1, IF n < 0 THEN -n ELSE n, 0)

NegF[a \in Scalar] == IF IsNaN(a) THEN NaN ELSE [a EXCEPT !.s = -a.s]
FNeg(a) == NegF[a]
AbsF[a \in Scalar] == IF IsNaN(a) THEN NaN ELSE [a EXCEPT !.s = 1]
\* std::abs
FAbs(a) == AbsF[a]
CopySignF[a \in Scalar, b \in Scalar] == IF IsNaN(a) THEN NaN ELSE [a EXCEPT !.s = b.s]
\* std::copysign(a, b); the sign of a NaN is not modelled
CopySign(a, b) == CopySignF[a, b]

\* magnitude order of two finite scalars in canonical form
MagLt(a, b) == a.e < b.e \/ (a.e = b.e /\ a.m < b.m)

LtF[a \in Scalar, b \in Scalar] ==
    IF IsNaN(a) \/ IsNaN(b) THEN FALSE
    ELSE IF IsZero(a) /\ IsZero(b) THEN FALSE
    ELSE IF IsInf(a) THEN a.s = -1 /\ ~(IsInf(b) /\ b.s = -1)
    ELSE IF IsInf(b) THEN b.s = 1
    ELSE IF a.s # b.s THEN a.s = -1
    ELSE IF a.s = 1 THEN MagLt(a, b) ELSE MagLt(b, a)
EqF[a \in Scalar, b \in Scalar] ==
    IF IsNaN(a) \/ IsNaN(b) THEN FALSE
    ELSE (IsZero(a) /\ IsZero(b)) \/ a = b
\* operator<, operator>, operator==, operator<=, operator>= on scalars
FLt(a, b) == LtF[a, b]
FGt(a, b) == LtF[b, a]
FEq(a, b) == EqF[a, b]
LeF[a \in Scalar, b \in Scalar] == LtF[a, b] \/ EqF[a, b]
FLe(a, b) == LeF[a, b]
FGe(a, b) == LeF[b, a]

\* the sum of two finite nonzero scalars, hi the one with the larger exponent
AddAligned[hi \in Scalar, lo \in Scalar, sum \in Int] ==
    IF hi.e - lo.e > Digits + 2 THEN hi
    ELSE Round(IF sum < 0 THEN -1 ELSE 1, IF sum < 0 THEN -sum ELSE sum, lo.e)
AddOrdered[hi \in Scalar, lo \in Scalar] ==
    AddAligned[hi, lo, IF hi.e - lo.e > Digits + 2 THEN 0
                       ELSE hi.s * hi.m * Pow2(hi.e - lo.e) + lo.s * lo.m]
AddF[a \in Scalar, b \in Scalar] ==
    IF IsNaN(a) \/ IsNaN(b) THEN NaN
    ELSE IF IsInf(a) THEN (IF IsInf(b) /\ b.s # a.s THEN NaN ELSE a)
    ELSE IF IsInf(b) THEN b
    ELSE IF IsZero(a) /\ IsZero(b) THEN (IF a.s = -1 /\ b.s = -1 THEN Zero(-1) ELSE Zero(1))
    ELSE IF IsZero(a) THEN b
    ELSE IF IsZero(b) THEN a
    ELSE AddOrdered[IF a.e >= b.e THEN a ELSE b, IF a.e >= b.e THEN b ELSE a]
\* operator+ and operator- on scalars
FAdd(a, b) == AddF[a, b]
FSub(a, b) == AddF[a, NegF[b]]

MulF[a \in Scalar, b \in Scalar] ==
    IF IsNaN(a) \/ IsNaN(b) THEN NaN
    ELSE IF IsInf(a) \/ IsInf(b)
         THEN (IF IsZero(a) \/ IsZero(b) THEN NaN ELSE Inf(a.s * b.s))
    ELSE Round(a.s * b.s, a.m * b.m, a.e + b.e)
\* operator* on scalars
FMul(a, b) == MulF[a, b]

\* the quotient num / den of two significands, with a sticky last bit
Quotient[s \in {1, -1}, num \in Nat, den \in Nat, E \in Int] ==
    Round(s, 2 * (num \div den) + (IF num % den = 0 THEN 0 ELSE 1), E)
DivF[a \in Scalar, b \in Scalar] ==
    IF IsNaN(a) \/ IsNaN(b) THEN NaN
    ELSE IF IsInf(a) THEN (IF IsInf(b) THEN NaN ELSE Inf(a.s * b.s))
    ELSE IF IsInf(b) THEN Zero(a.s * b.s)
    ELSE IF IsZero(b) THEN (IF IsZero(a) THEN NaN ELSE Inf(a.s * b.s))
    ELSE IF IsZero(a) THEN Zero(a.s * b.s)
    ELSE Quotient[a.s * b.s, NormM(a) * Pow2(Digits + 2), NormM(b),
                  NormE(a) - NormE(b) - (Digits + 2) - 1]
\* operator/ on scalars
FDiv(a, b) == DivF[a, b]

\* the square root of n * 2^E for E even, with a sticky last bit
RootOf[n \in Nat, q \in Nat, E \in Int] ==
    Round(1, 2 * q + (IF q * q = n THEN 0 ELSE 1), E \div 2 - 1)
RootEven[m \in Nat, e \in Int] ==
    RootOf[m * Pow2(2 * ((Digits + 2) \div 2)),
           ISqrt(m * Pow2(2 * ((Digits + 2) \div 2))),
           e - 2 * ((Digits + 2) \div 2)]
SqrtF[a \in Scalar] ==
    IF IsNaN(a) THEN NaN
    ELSE IF IsZero(a) THEN a
    ELSE IF a.s = -1 THEN NaN
    ELSE IF IsInf(a) THEN a
    ELSE RootEven[(1 + (NormE(a) % 2)) * NormM(a), NormE(a) - (NormE(a) % 2)]
\* std::sqrt
FSqrt(a) == SqrtF[a]

\* 2^k as a scalar
P2(k) == Fin(1, Pow2(Digits - 1), k - (Digits - 1))
Half == P2(-1)
One == P2(0)
Two == P2(1)
\* the scalar nearest to n / d
Ratio(n, d) == FDiv(FromInt(n), FromInt(d))
\* M_PI rounded to the scalar type
Pi == Ratio(355, 113)
HalfPi == FDiv(Pi, Two)
\* Eigen::NumTraits<Scalar>::epsilon(): the gap between 1 and the next scalar
Epsilon == Fin(1, Pow2(Digits - 1), 2 - 2 * Digits)
\* std::numeric_limits<Real>::max()
MaxReal == Fin(1, Pow2(Digits) - 1, MaxExp)
\* the smallest positive (subnormal) scalar
MinSub == Fin(1, 1, MinExp)

\* the neighbour of a finite nonzero scalar that is larger in magnitude
MagUp(a) ==
    IF a.m + 1 = Pow2(Digits)
    THEN (IF a.e + 1 > MaxExp THEN Inf(a.s) ELSE Fin(a.s, Pow2(Digits - 1), a.e + 1))
    ELSE Fin(a.s, a.m + 1, a.e)
\* the neighbour of a finite nonzero scalar that is smaller in magnitude
MagDown(a) ==
    IF a.m = Pow2(Digits - 1) /\ a.e > MinExp
    THEN Fin(a.s, Pow2(Digits) - 1, a.e - 1)
    ELSE Fin(a.s, a.m - 1, a.e)

NextAfterF[x \in Scalar, y \in Scalar] ==
    IF IsNaN(x) \/ IsNaN(y) THEN NaN
    ELSE IF FEq(x, y) THEN y
    ELSE IF IsZero(x) THEN (IF FLt(x, y) THEN MinSub ELSE FNeg(MinSub))
    ELSE IF IsInf(x) THEN [MaxReal EXCEPT !.s = x.s]
    ELSE IF FLt(x, y) = (x.s = 1) THEN MagUp(x)
    ELSE MagDown(x)
\* std::nextafter(x, y): the next scalar after x in the direction of y
NextAfter(x, y) == NextAfterF[x, y]

NegIf(b, x) == IF b THEN FNeg(x) ELSE x

\* 1 - x2/d[1] * (1 - x2/d[2] * (... (1 - x2/d[n]))): the Horner form of a series
Poly[x2 \in Scalar, d \in Seq(Nat)] ==
    IF d = <<>> THEN One
    ELSE FSub(One, FMul(FDiv(x2, FromInt(Head(d))), Poly[x2, Tail(d)]))
SinDivisors == <<6, 20, 42, 72, 110>>
CosDivisors == <<2, 12, 30, 56, 90>>
\* on [-pi/4, pi/4]: the sine of r for even k, the cosine of r for odd k
TrigPoly[r \in Scalar, k \in Nat] ==
    FMul(IF k % 2 = 0 THEN r ELSE One,
         Poly[FMul(r, r), IF k % 2 = 0 THEN SinDivisors ELSE CosDivisors])

\* k * pi / 2 in two parts, hi + lo, for the argument reduction
QuarterTurnsHi == [k \in 1 .. 4 |-> Ratio(355 * k, 226)]
QuarterTurnsLo ==
    [k \in 1 .. 4 |->
        FDiv(FDiv(FromInt(355 * k * Pow2(-QuarterTurnsHi[k].e) - 226 * QuarterTurnsHi[k].m),
                  FromInt(226)),
             Fin(1, Pow2(Digits - 1), 1 - Digits - QuarterTurnsHi[k].e))]
\* k * pi / 4
Eighths == [k \in 1 .. 7 |-> Ratio(355 * k, 452)]
\* the quarter turn nearest to x >= 0, or 4 for a full turn and more
Quadrant[x \in Scalar] ==
    IF FLe(x, Eighths[1]) THEN 0
    ELSE IF FLe(x, Eighths[3]) THEN 1
    ELSE IF FLe(x, Eighths[5]) THEN 2
    ELSE IF FLe(x, Eighths[7]) THEN 3
    ELSE 4
\* x - k * pi / 2
Reduce[x \in Scalar, k \in 0 .. 4] ==
    IF k = 0 THEN x ELSE FSub(FSub(x, QuarterTurnsHi[k]), QuarterTurnsLo[k])
\* sin(x + k * pi / 2) for x >= 0 within quarter turn q
TrigIn[x \in Scalar, k \in Nat, q \in 0 .. 4] ==
    NegIf((q + k) % 4 >= 2, TrigPoly[Reduce[x, q], q + k])
\* sin(x + k * pi / 2) for finite x >= 0
Trig[x \in Scalar, k \in Nat] ==
    IF Quadrant[x] = 4 THEN Trig[Reduce[x, 4], k] ELSE TrigIn[x, k, Quadrant[x]]
SinF[x \in Scalar] ==
    IF IsNaN(x) \/ IsInf(x) THEN NaN ELSE NegIf(x.s = -1, Trig[FAbs(x), 0])
CosF[x \in Scalar] ==
    IF IsNaN(x) \/ IsInf(x) THEN NaN ELSE Trig[FAbs(x), 1]
\* std::sin and std::cos, for arguments of magnitude up to a few turns
FSin(x) == SinF[x]
FCos(x) == CosF[x]

\* arctangent of t in [0, 1]: two half-angle steps, then the series
AtanHalve[t \in Scalar, n \in Nat] ==
    IF n = 0 THEN t
    ELSE AtanHalve[FDiv(t, FAdd(One, FSqrt(FAdd(One, FMul(t, t))))), n - 1]
AtanSeries[u \in Scalar, u2 \in Scalar] ==
    FMul(FromInt(4),
         FMul(u, FSub(One, FMul(u2, FSub(Ratio(1, 3),
                                         FMul(u2, FSub(Ratio(1, 5), FDiv(u2, FromInt(7)))))))))
AtanSmall[u \in Scalar] == AtanSeries[u, FMul(u, u)]
AtanUnit[t \in Scalar] == AtanSmall[AtanHalve[t, 2]]
\* the arctangent of max/min from that of min/max
AtanFold[a \in Scalar, swapped \in BOOLEAN] == IF swapped THEN FSub(HalfPi, a) ELSE a
\* std::atan2(y, x) for y >= 0 and x >= 0
AtanQuadrant[y \in Scalar, x \in Scalar] ==
    IF IsZero(y) THEN Zero(1)
    ELSE IF IsZero(x) THEN HalfPi
    ELSE IF IsInf(y) THEN (IF IsInf(x) THEN FDiv(HalfPi, Two) ELSE HalfPi)
    ELSE IF IsInf(x) THEN Zero(1)
    ELSE AtanFold[AtanUnit[FDiv(IF FLe(y, x) THEN y ELSE x, IF FLe(y, x) THEN x ELSE y)],
                  ~FLe(y, x)]
Atan2Quadrant[y \in Scalar, x \in Scalar, a \in Scalar] ==
    CopySign(IF x.s = 1 THEN a ELSE FSub(Pi, a), y)
Atan2F[y \in Scalar, x \in Scalar] ==
    IF IsNaN(y) \/ IsNaN(x) THEN NaN
    ELSE Atan2Quadrant[y, x, AtanQuadrant[FAbs(y), FAbs(x)]]
\* std::atan2
FAtan2(y, x) == Atan2F[y, x]
AcosF[c \in Scalar] ==
    IF IsNaN(c) \/ FGt(FAbs(c), One) THEN NaN
    ELSE FAtan2(FSqrt(FMul(FSub(One, c), FAdd(One, c))), c)
\* std::acos
FAcos(c) == AcosF[c]

(***************************************************************************)
(* Vectors <<x, y, z>>, quaternions [x, y, z, w] and 3x3 matrices          *)
(* m[row][column] with rows and columns 0..2, as Eigen indexes them.       *)
(***************************************************************************)
Idx == 0 .. 2
Vec3 == [1 .. 3 -> Scalar]
Mat3 == [Idx -> [Idx -> Scalar]]
QuatSet == [x : Scalar, y : Scalar, z : Scalar, w : Scalar]
Vec(x, y, z) == <<x, y, z>>
Zero3 == Vec(Zero(1), Zero(1), Zero(1))

VScaleF[k \in Scalar, v \in Vec3] == Vec(FMul(k, v[1]), FMul(k, v[2]), FMul(k, v[3]))
VDivF[v \in Vec3, d \in Scalar] == Vec(FDiv(v[1], d), FDiv(v[2], d), FDiv(v[3], d))
\* scalar * vector, vector / scalar, -vector
VScale(k, v) == VScaleF[k, v]
VDiv(v, d) == VDivF[v, d]
VNeg(v) == VScale(FNeg(One), v)
SquaredNormF[v \in Vec3] == FAdd(FMul(v[1], v[1]), FAdd(FMul(v[2], v[2]), FMul(v[3], v[3])))
\* Eigen squaredNorm() and norm() of a 3-vector
SquaredNorm(v) == SquaredNormF[v]
Norm(v) == FSqrt(SquaredNorm(v))
\* q.vec()
QVec(q) == Vec(q.x, q.y, q.z)
Quat(x, y, z, w) == [x |-> x, y |-> y, z |-> z, w |-> w]
QNeg(q) == Quat(FNeg(q.x), FNeg(q.y), FNeg(q.z), FNeg(q.w))
IdentityQuat == Quat(Zero(1), Zero(1), Zero(1), One)

\* Jacobian::Identity()
Identity3 == [i \in Idx |-> [j \in Idx |-> IF i = j THEN One ELSE Zero(1)]]
\* matrix sums, products and scalings, coefficient by coefficient
MAddF[a \in Mat3, b \in Mat3] == [i \in Idx |-> [j \in Idx |-> FAdd(a[i][j], b[i][j])]]
MSubF[a \in Mat3, b \in Mat3] == [i \in Idx |-> [j \in Idx |-> FSub(a[i][j], b[i][j])]]
MScaleF[k \in Scalar, a \in Mat3] == [i \in Idx |-> [j \in Idx |-> FMul(k, a[i][j])]]
MDivF[a \in Mat3, d \in Scalar] == [i \in Idx |-> [j \in Idx |-> FDiv(a[i][j], d)]]
MMulF[a \in Mat3, b \in Mat3] ==
    [i \in Idx |-> [j \in Idx |->
        FAdd(FMul(a[i][0], b[0][j]), FAdd(FMul(a[i][1], b[1][j]), FMul(a[i][2], b[2][j])))]]
MAdd(a, b) == MAddF[a, b]
MSub(a, b) == MSubF[a, b]
MScale(k, a) == MScaleF[k, a]
MDivS(a, d) == MDivF[a, d]
MMul(a, b) == MMulF[a, b]
MTranspose(a) == [i \in Idx |-> [j \in Idx |-> a[j][i]]]
Trace(a) == FAdd(a[0][0], FAdd(a[1][1], a[2][2]))
\* phi * phi.transpose()
Outer(v) == [i \in Idx |-> [j \in Idx |-> FMul(v[i + 1], v[j + 1])]]

\* crossMatrix(v): the skew-symmetric matrix of v
crossMatrix(v) ==
    [i \in Idx |-> [j \in Idx |->
        IF i = j THEN Zero(1)
        ELSE IF <<i, j>> = <<2, 1>> THEN v[1]
        ELSE IF <<i, j>> = <<1, 2>> THEN FNeg(v[1])
        ELSE IF <<i, j>> = <<0, 2>> THEN v[2]
        ELSE IF <<i, j>> = <<2, 0>> THEN FNeg(v[2])
        ELSE IF <<i, j>> = <<1, 0>> THEN v[3]
        ELSE FNeg(v[3])]]

(***************************************************************************)
(* The kernels of util/math/math.hpp                                       *)
(***************************************************************************)
\* uncrossMatrix reading (1,2) where the source reads (2,1)
uncrossMatrixTransposed(skew) == Vec(skew[1][2], skew[0][2], skew[1][0])
uncrossMatrix(skew) == Vec(skew[2][1], skew[0][2], skew[1][0])

\* the exponential map with no small-angle branch
ExpClosedFormAlways(angle2) == TRUE
\* the exponential map's test with >= where the source has >
ExpClosedFormNonStrict(angle2) == FGe(FMul(angle2, angle2), Epsilon)
\* quaternionFromRotationVector: the test that selects the closed form
ExpClosedForm(angle2) == FGt(FMul(angle2, angle2), Epsilon)
\* q.coeffs() << s * v, c
ExpCoeffs[v \in Vec3, s \in Scalar, c \in Scalar] ==
    Quat(FMul(s, v[1]), FMul(s, v[2]), FMul(s, v[3]), c)
ExpBranch[v \in Vec3, angle2 \in Scalar, angle \in Scalar] ==
    IF ExpClosedForm(angle2)
    THEN ExpCoeffs[v, FDiv(FSin(FDiv(angle, Two)), angle), FCos(FDiv(angle, Two))]
    ELSE ExpCoeffs[v, FAdd(Half, FDiv(angle2, FromInt(48))), FSub(One, FDiv(angle2, FromInt(8)))]
ExpAngle2[v \in Vec3, angle2 \in Scalar] == ExpBranch[v, angle2, FSqrt(angle2)]
quaternionFromRotationVector(v) == ExpAngle2[v, SquaredNorm(v)]

\* rotationVectorFromQuaternion: the test that selects the closed form
LogClosedForm(norm) == FGt(norm, Epsilon)
LogBranch[q \in QuatSet, norm \in Scalar] ==
    IF LogClosedForm(norm)
    THEN VDiv(VScale(FMul(Two, FAtan2(norm, FAbs(q.w))), QVec(q)), CopySign(norm, q.w))
    ELSE VScale(Two, QVec(q))
rotationVectorFromQuaternion(q) == LogBranch[q, Norm(QVec(q))]

\* rotationVectorFromMatrix: the angle, and the test that selects the closed form
MatrixAngle(m) == FAcos(FDiv(FSub(Trace(m), One), Two))
LogMatClosedForm(angle) == FGt(FMul(angle, angle), Epsilon)
LogMatBranch[diff \in Mat3, angle \in Scalar] ==
    IF LogMatClosedForm(angle)
    THEN uncrossMatrix(MScale(FDiv(angle, FMul(Two, FSin(angle))), diff))
    ELSE uncrossMatrix(MScale(Half, diff))
rotationVectorFromMatrix(m) == LogMatBranch[MSub(m, MTranspose(m)), MatrixAngle(m)]

\* jacobianOfRotationLogMap(rotation_vec): no small-angle branch
Jac1Sum[X \in Mat3, k \in Scalar] ==
    MAdd(MSub(Identity3, MScale(Half, X)), MMul(MScale(k, X), X))
Jac1AB[X \in Mat3, A \in Scalar, B \in Scalar, cosTheta \in Scalar] ==
    Jac1Sum[X, FDiv(FSub(B, FMul(Half, A)), FSub(One, cosTheta))]
Jac1Theta[X \in Mat3, theta2 \in Scalar, theta \in Scalar, cosTheta \in Scalar] ==
    Jac1AB[X, FDiv(FSin(theta), theta), FDiv(FSub(One, cosTheta), theta2), cosTheta]
Jac1Theta2[X \in Mat3, theta2 \in Scalar, theta \in Scalar] ==
    Jac1Theta[X, theta2, theta, FCos(theta)]
jacobianOfRotationLogMap1(phi) ==
    Jac1Theta2[crossMatrix(phi), SquaredNorm(phi), FSqrt(SquaredNorm(phi))]

\* jacobianOfRotationLogMap(rotation_mat, rotation_vec)
JacClosedForm(n2) == FGt(n2, Epsilon)
Jac2Branch[C \in Mat3, phi \in Vec3, pcross \in Mat3, n2 \in Scalar] ==
    IF JacClosedForm(n2)
    THEN MDivS(MAdd(MMul(MSub(Identity3, C), pcross), Outer(phi)), n2)
    ELSE MAdd(Identity3, MScale(Half, pcross))
jacobianOfRotationLogMap2(C, phi) == Jac2Branch[C, phi, crossMatrix(phi), SquaredNorm(phi)]

(***************************************************************************)
(* State                                                                   *)
(***************************************************************************)
VARIABLES
    arg,        \* the input of the run
    calls,      \* the calls made, in order
    rot,        \* the RelativeRotation objects: [state, val] by name
    build,      \* what the build fixed: the Eigen release's normalized()
    rng,        \* the static generator of uniformRandom<Real>, by scalar type
    seedings,   \* the seeds each generator was constructed with, in order
    pc,         \* the position of each thread
    frame       \* the automatic storage of each thread's call

kernelVars == <<arg, calls>>
leafVars == <<rot, build>>
randomVars == <<rng, seedings>>
threadVars == <<pc, frame>>
vars == <<arg, calls, rot, build, rng, seedings, pc, frame>>

IntVec(d) == Vec(FromInt(d[1]), FromInt(d[2]), FromInt(d[3]))

\* bounds of the input sets
MantissaSteps == 3
DirCount == 4
JunkCount == 2

\* magnitudes from below epsilon up to a few radians, and zero
Magnitudes ==
    { Round(1, Pow2(Digits - 1) + j * Pow2(Digits - 3), e) :
        j \in 0 .. MantissaSteps, e \in (0 - 2 * Digits) .. (2 - Digits) }
    \cup { Zero(1), Epsilon, FDiv(Epsilon, Two), MinSub }
DirList == << <<1, 0, 0>>, <<0, 0, -1>>, <<1, 2, 2>>, <<-3, 0, 4>>, <<2, -3, 6>>, <<1, 1, 1>> >>
Directions == { DirList[i] : i \in 1 .. Min(DirCount, Len(DirList)) }
VecInputs == { VScale(g, IntVec(d)) : g \in Magnitudes, d \in Directions }

\* unit quaternions: images of the exponential map, their negations, and
\* quaternions at w = +-1 and w = +-0 with a vector part around epsilon
TinyParts == { Zero(1), MinSub, FDiv(Epsilon, Two), Epsilon, NextAfter(Epsilon, One) }
HandQuats ==
    { Quat(x, Zero(1), Zero(1), w) : x \in TinyParts \cup { FNeg(t) : t \in TinyParts },
                                     w \in { One, FNeg(One) } }
    \cup { Quat(Zero(1), y, Zero(1), w) : y \in { One, FNeg(One) }, w \in { Zero(1), Zero(-1) } }
QuatInputs ==
    LET images == { quaternionFromRotationVector(v) : v \in VecInputs }
    IN images \cup { QNeg(q) : q \in images } \cup HandQuats

\* rotation matrices about the z and x axes
RotZ(t) ==
    [i \in Idx |-> [j \in Idx |->
        IF <<i, j>> \in { <<0, 0>>, <<1, 1>> } THEN FCos(t)
        ELSE IF <<i, j>> = <<1, 0>> THEN FSin(t)
        ELSE IF <<i, j>> = <<0, 1>> THEN FNeg(FSin(t))
        ELSE IF <<i, j>> = <<2, 2>> THEN One
        ELSE Zero(1)]]
RotX(t) ==
    [i \in Idx |-> [j \in Idx |->
        IF <<i, j>> \in { <<1, 1>>, <<2, 2>> } THEN FCos(t)
        ELSE IF <<i, j>> = <<2, 1>> THEN FSin(t)
        ELSE IF <<i, j>> = <<1, 2>> THEN FNeg(FSin(t))
        ELSE IF <<i, j>> = <<0, 0>> THEN One
        ELSE Zero(1)]]
MatInputs == { RotZ(t) : t \in Magnitudes } \cup { RotX(FNeg(t)) : t \in Magnitudes }

\* (rotation matrix, rotation vector) pairs for the two-argument Jacobian
PairInputs ==
    { <<RotZ(t), Vec(Zero(1), Zero(1), t)>> : t \in Magnitudes }
    \cup { <<Identity3, v>> : v \in VecInputs }

\* a 3x3 matrix whose entries (2,1), (0,2), (1,0) are those of crossMatrix(w);
\* junk = 0 gives crossMatrix(w) itself, another junk overwrites the other six
WithJunk(w, junk) ==
    [i \in Idx |-> [j \in Idx |->
        IF junk = 0 \/ <<i, j>> \in { <<2, 1>>, <<0, 2>>, <<1, 0>> }
        THEN crossMatrix(w)[i][j]
        ELSE FromInt(junk + i - 2 * j)]]
SkewInputs ==
    { [w |-> IntVec(<<x, y, z>>), junk |-> k] :
        x \in -1 .. 1, y \in {-2, 0, 3}, z \in {0, 5}, k \in 0 .. JunkCount }

NoDen == NaN
Call(op, in, out, closed, qty, den) ==
    [op |-> op, in |-> in, out |-> out, closed |-> closed, qty |-> qty, den |-> den]

(***************************************************************************)
(* Kernel calls                                                            *)
(***************************************************************************)
ExpCall(v) ==
    LET angle2 == SquaredNorm(v)
        closed == ExpClosedForm(angle2)
    IN Call("exp", v, quaternionFromRotationVector(v), closed, FMul(angle2, angle2),
            IF closed THEN FSqrt(angle2) ELSE NoDen)
LogCall(q) ==
    LET norm == Norm(QVec(q))
        closed == LogClosedForm(norm)
    IN Call("log", q, rotationVectorFromQuaternion(q), closed, norm,
            IF closed THEN CopySign(norm, q.w) ELSE NoDen)
LogMatCall(m) ==
    LET angle == MatrixAngle(m)
        closed == LogMatClosedForm(angle)
    IN Call("logmat", m, rotationVectorFromMatrix(m), closed, FMul(angle, angle),
            IF closed THEN FMul(Two, FSin(angle)) ELSE NoDen)
Jac2Call(C, phi) ==
    LET n2 == SquaredNorm(phi)
        closed == JacClosedForm(n2)
    IN Call("jac2", <<C, phi>>, jacobianOfRotationLogMap2(C, phi), closed, n2,
            IF closed THEN n2 ELSE NoDen)

CallUncross ==
    /\ arg.kind = "skew" /\ calls = <<>>
    /\ calls' = << Call("uncross", WithJunk(arg.val.w, arg.val.junk),
                        uncrossMatrix(WithJunk(arg.val.w, arg.val.junk)), FALSE, NaN, NoDen) >>
    /\ UNCHANGED <<arg, leafVars, randomVars, threadVars>>
CallExp ==
    /\ arg.kind = "vec" /\ calls = <<>>
    /\ calls' = << ExpCall(arg.val) >>
    /\ UNCHANGED <<arg, leafVars, randomVars, threadVars>>
\* the caller hands the quaternion it got to the logarithmic map
CallLogOfExp ==
    /\ Len(calls) = 1 /\ calls[1].op = "exp"
    /\ calls' = Append(calls, LogCall(calls[1].out))
    /\ UNCHANGED <<arg, leafVars, randomVars, threadVars>>
CallLog ==
    /\ arg.kind = "quat" /\ calls = <<>>
    /\ calls' = << LogCall(arg.val) >>
    /\ UNCHANGED <<arg, leafVars, randomVars, threadVars>>
\* the caller hands the negated quaternion, the same rotation, to the same map
CallLogOfNegated ==
    /\ Len(calls) = 1 /\ calls[1].op = "log"
    /\ calls' = Append(calls, LogCall(QNeg(calls[1].in)))
    /\ UNCHANGED <<arg, leafVars, randomVars, threadVars>>
CallLogMat ==
    /\ arg.kind = "mat" /\ calls = <<>>
    /\ calls' = << LogMatCall(arg.val) >>
    /\ UNCHANGED <<arg, leafVars, randomVars, threadVars>>
CallJac1 ==
    /\ arg.kind = "vec" /\ calls = <<>>
    /\ calls' = << Call("jac1", arg.val, jacobianOfRotationLogMap1(arg.val), FALSE, NaN, NoDen) >>
    /\ UNCHANGED <<arg, leafVars, randomVars, threadVars>>
CallJac2 ==
    /\ arg.kind = "pair" /\ calls = <<>>
    /\ calls' = << Jac2Call(arg.val[1], arg.val[2]) >>
    /\ UNCHANGED <<arg, leafVars, randomVars, threadVars>>

Input(kind, S) == { [kind |-> kind, val |-> x] : x \in S }
\* the parts of the state a run does not use
ObjNames == {"a", "b", "made"}
ScalarTypes == {"float", "double"}
Threads == {1, 2}
NoObject == [state |-> "none", val |-> <<>>]
NoGenerator == [state |-> "none", seed |-> 0, pos |-> 0]
NoLeaf == rot = [o \in ObjNames |-> NoObject] /\ build = [guarded |-> TRUE]
NoRandom == rng = [T \in ScalarTypes |-> NoGenerator] /\ seedings = [T \in ScalarTypes |-> <<>>]
\* the locals of a call before the call assigns them
NoFrame == [seen |-> 0, out |-> <<>>, v |-> <<>>, n2 |-> NaN]
NoThreads == pc = [t \in Threads |-> "idle"] /\ frame = [t \in Threads |-> NoFrame]

InitKernels ==
    /\ arg \in Input("vec", VecInputs) \cup Input("quat", QuatInputs)
               \cup Input("mat", MatInputs) \cup Input("pair", PairInputs)
               \cup Input("skew", SkewInputs)
    /\ calls = <<>>
    /\ NoLeaf /\ NoRandom /\ NoThreads
NextKernels ==
    \/ CallUncross
    \/ CallExp
    \/ CallLogOfExp
    \/ CallLog
    \/ CallLogOfNegated
    \/ CallLogMat
    \/ CallJac1
    \/ CallJac2
SpecKernels == InitKernels /\ [][NextKernels]_vars

(***************************************************************************)
(* Properties of the kernels                                               *)
(***************************************************************************)
\* numeric equality of vectors and matrices: +0 and -0 are equal, NaN is not
VEq(u, v) == \A i \in 1 .. 3 : FEq(u[i], v[i])
MEq(a, b) == \A i \in Idx : \A j \in Idx : FEq(a[i][j], b[i][j])
IsZeroVec(v) == \A i \in 1 .. 3 : IsZero(v[i])
\* a finite scalar with a full significand
IsNormal(a) == IsFin(a) /\ a.m >= Pow2(Digits - 1)
CallsOf(op) == { i \in DOMAIN calls : calls[i].op = op }

\* C1: uncrossMatrix returns exactly w from the cross matrix of w, and returns
\* the same w whatever the six entries it does not read hold.
C1_UncrossReturnsVector ==
    \A i \in CallsOf("uncross") :
        /\ calls[i].out = arg.val.w
        /\ uncrossMatrix(crossMatrix(arg.val.w)) = arg.val.w
C1_UncrossedJunkMatrix ==
    \E i \in CallsOf("uncross") :
        /\ arg.val.junk # 0
        /\ calls[i].in # crossMatrix(arg.val.w)
        /\ ~IsZero(calls[i].in[0][0])
        /\ \A k \in 1 .. 3 : ~IsZero(arg.val.w[k])
        /\ calls[i].out = arg.val.w

\* the round-trip tolerance: a few units in the last place of the norm of v
RoundTripTol(v) == FMul(FMul(FromInt(4), Epsilon), Norm(v))
Within(r, v) == \A i \in 1 .. 3 : FLe(FAbs(FSub(r[i], v[i])), RoundTripTol(v))
\* C2: the logarithmic map of the exponential map of v gives v back within a
\* tolerance scaled to the norm of v, for every v of norm below pi (checked
\* for v = 0 and for v whose squared norm is a normal number).
C2_RoundTrip ==
    (/\ Len(calls) = 2 /\ calls[1].op = "exp" /\ calls[2].op = "log"
     /\ FLt(Norm(arg.val), Pi)
     /\ (IsZeroVec(arg.val) \/ IsNormal(SquaredNorm(arg.val))))
        => Within(calls[2].out, arg.val)
\* the same round trip where the exponential map took its closed form
C2_RoundTripClosedForm ==
    (/\ Len(calls) = 2 /\ calls[1].op = "exp" /\ calls[2].op = "log"
     /\ FLt(Norm(arg.val), Pi)
     /\ calls[1].closed)
        => Within(calls[2].out, arg.val)

\* C3: the logarithmic map gives q and -q the same rotation vector, of norm
\* at most pi, for every unit quaternion q.
C3_DoubleCover ==
    /\ \A i \in CallsOf("log") : FLe(Norm(calls[i].out), Pi)
    /\ (Len(calls) = 2 /\ calls[1].op = "log" /\ calls[2].op = "log")
          => VEq(calls[1].out, calls[2].out)
\* the same where the closed form was taken
C3_DoubleCoverClosedForm ==
    (Len(calls) = 2 /\ calls[1].op = "log" /\ calls[2].op = "log" /\ calls[1].closed)
        => VEq(calls[1].out, calls[2].out)

\* C4: both overloads of jacobianOfRotationLogMap return the identity matrix
\* at the zero rotation vector (the two-argument one with C the identity).
C4_IdentityAtZero ==
    /\ \A i \in CallsOf("jac1") :
          IsZeroVec(calls[i].in) => MEq(calls[i].out, Identity3)
    /\ \A i \in CallsOf("jac2") :
          (calls[i].in[1] = Identity3 /\ IsZeroVec(calls[i].in[2]))
              => MEq(calls[i].out, Identity3)
\* the two-argument overload alone
C4_TwoArgumentIdentityAtZero ==
    \A i \in CallsOf("jac2") :
        (calls[i].in[1] = Identity3 /\ IsZeroVec(calls[i].in[2]))
            => MEq(calls[i].out, Identity3)

\* C10: each of the four kernels with a fallback takes its closed form iff its
\* quantity is strictly greater than epsilon; at the threshold and at zero it
\* takes the fallback, and where it divides the divisor is not zero.
C10_StrictEpsilonBranch ==
    \A i \in CallsOf("exp") \cup CallsOf("log") \cup CallsOf("logmat") \cup CallsOf("jac2") :
        /\ calls[i].closed <=> FGt(calls[i].qty, Epsilon)
        /\ (FEq(calls[i].qty, Epsilon) \/ IsZero(calls[i].qty)) => ~calls[i].closed
        /\ calls[i].closed => (~IsZero(calls[i].den) /\ ~IsNaN(calls[i].den))
C10_FallbackAtThreshold ==
    /\ \E i \in CallsOf("exp") :
          FEq(calls[i].qty, Epsilon) /\ ~calls[i].closed /\ ~IsZeroVec(calls[i].in)
    /\ arg.kind = "vec"

(***************************************************************************)
(* The leaf type of geometry/leaf/RelativeRotation.hpp                     *)
(***************************************************************************)
\* Eigen's normalized(): n / sqrt(z) for z the squared norm of n.  Releases
\* from 3.3 on return n itself unless z > 0; earlier ones always divide.
NormalizedBy[n \in Vec3, z \in Scalar, guarded \in BOOLEAN] ==
    IF guarded /\ ~FGt(z, Zero(1)) THEN n ELSE VDiv(n, FSqrt(z))
normalized(n, guarded) == NormalizedBy[n, SquaredNorm(n), guarded]

\* the assignment without the normalization
setFromAngleAndAxisUnnormalized(angle, axis, guarded) == VScale(angle, axis)
\* this->value() = angle * axis.normalized()
setFromAngleAndAxis(angle, axis, guarded) == VScale(angle, normalized(axis, guarded))
\* RelativeRotation r; r.setFromAngleAndAxis(angle, axis); return r;
\* r holds an indeterminate value until the assignment
FromAngleAndAxis(angle, axis, indeterminate, guarded) ==
    setFromAngleAndAxis(angle, axis, guarded)
\* evalImpl(expr<ExpMap>, rhs), on the value of rhs
evalImpl(value) == quaternionFromRotationVector(value)

\* the integer norms of the first directions of DirList
DirNorms == <<1, 1, 3, 5, 7>>
LeafDirs == 1 .. Min(DirCount, Len(DirNorms))
LeafAngles == { Ratio(3, 4), FNeg(HalfPi) }
\* axis lengths 2^j: so short that the squared norm underflows to zero or to a
\* subnormal, moderate, and so long that the squared norm overflows
ScaleExps ==
    { (MinExp - 1) \div 2, (MinExp + Digits) \div 2 - 1, -8, 0, 3, (MaxExp + Digits) \div 2 + 1 }
LeafFactors == { P2(1), P2(-3), FromInt(3) }
LeafOlds == { Zero3 }
\* what a default-constructed object may hold
Indeterminate == { Vec(NaN, NaN, NaN), IntVec(<<7, -7, 7>>) }
LeafInputs ==
    { [angle |-> g, dir |-> i, axis |-> VScale(P2(j), IntVec(DirList[i])), factor |-> k,
       old |-> w] :
        g \in LeafAngles, i \in LeafDirs, j \in ScaleExps, k \in LeafFactors, w \in LeafOlds }
\* object b is set from the axis stretched by the factor
AxisOf(o) == IF o = "b" THEN VScale(arg.val.factor, arg.val.axis) ELSE arg.val.axis
Object(state, val, was) == [state |-> state, val |-> val, was |-> was]

\* RelativeRotation a;
CallDefaultConstruct ==
    /\ arg.kind = "leaf" /\ rot["a"].state = "none"
    /\ \E w \in Indeterminate : rot' = [rot EXCEPT !["a"] = Object("indeterminate", w, <<>>)]
    /\ UNCHANGED <<kernelVars, build, randomVars, threadVars>>
\* RelativeRotation b{x, y, z};
CallConstructFromScalars ==
    /\ arg.kind = "leaf" /\ rot["b"].state = "none"
    /\ rot' = [rot EXCEPT !["b"] = Object("value", arg.val.old, <<>>)]
    /\ UNCHANGED <<kernelVars, build, randomVars, threadVars>>
CallSetFromAngleAndAxis ==
    /\ arg.kind = "leaf"
    /\ \E o \in {"a", "b"} :
          /\ rot[o].state \in {"indeterminate", "value"}
          /\ rot' = [rot EXCEPT ![o] =
                        Object("set",
                               setFromAngleAndAxis(arg.val.angle, AxisOf(o), build.guarded),
                               rot[o].val)]
    /\ UNCHANGED <<kernelVars, build, randomVars, threadVars>>
CallFromAngleAndAxis ==
    /\ arg.kind = "leaf" /\ rot["made"].state = "none"
    /\ \E w \in Indeterminate :
          rot' = [rot EXCEPT !["made"] =
                     Object("set",
                            FromAngleAndAxis(arg.val.angle, arg.val.axis, w, build.guarded),
                            <<>>)]
    /\ UNCHANGED <<kernelVars, build, randomVars, threadVars>>
\* the exponential map of an object that holds a value
CallEvalImpl ==
    /\ arg.kind = "leaf" /\ calls = <<>>
    /\ \E o \in ObjNames :
          /\ rot[o].state \in {"value", "set"}
          /\ calls' = << [ExpCall(rot[o].val) EXCEPT !.op = "evalExp",
                                                     !.out = evalImpl(rot[o].val)] >>
    /\ UNCHANGED <<arg, leafVars, randomVars, threadVars>>

InitLeaf ==
    /\ arg \in Input("leaf", LeafInputs)
    /\ calls = <<>>
    /\ rot = [o \in ObjNames |-> NoObject]
    /\ build \in [guarded : BOOLEAN]
    /\ NoRandom /\ NoThreads
NextLeaf ==
    \/ CallDefaultConstruct
    \/ CallConstructFromScalars
    \/ CallSetFromAngleAndAxis
    \/ CallFromAngleAndAxis
    \/ CallEvalImpl
SpecLeaf == InitLeaf /\ [][NextLeaf]_vars

(***************************************************************************)
(* Properties of the leaf type                                             *)
(***************************************************************************)
QEq(p, q) == FEq(p.x, q.x) /\ FEq(p.y, q.y) /\ FEq(p.z, q.z) /\ FEq(p.w, q.w)

\* C5: the exponential map of the zero vector is exactly the identity
\* quaternion (0, 0, 0, 1), and evalImpl on a RelativeRotation holding
\* (0, 0, 0) returns that quaternion.
C5_ZeroMapsToIdentity ==
    /\ quaternionFromRotationVector(Zero3) = IdentityQuat
    /\ \A i \in CallsOf("evalExp") :
          /\ calls[i].in = Zero3 => calls[i].out = IdentityQuat
          /\ IsZeroVec(calls[i].in) =>
                (QEq(calls[i].out, IdentityQuat) /\ calls[i].out.w = One)
C5_EvaluatedZeroObject ==
    /\ rot["b"].state = "value" /\ rot["b"].val = Zero3
    /\ \E i \in CallsOf("evalExp") :
          calls[i].in = Zero3 /\ calls[i].out = IdentityQuat /\ ~calls[i].closed

\* angle times the unit vector along direction i, to a few units in the last place
UnitTimes(angle, i) ==
    [c \in 1 .. 3 |-> FDiv(FMul(angle, FromInt(DirList[i][c])), FromInt(DirNorms[i]))]
NearUnitTimes(val, angle, i) ==
    \A c \in 1 .. 3 :
        FLe(FAbs(FSub(val[c], UnitTimes(angle, i)[c])),
            FMul(FMul(FromInt(4), Epsilon), FAbs(angle)))
IsSet(o) == rot[o].state = "set"
NonzeroAxis(axis) == ~IsZeroVec(axis)
NormalAxis(axis) == IsNormal(SquaredNorm(axis))
Admitted(axis, normalOnly) == IF normalOnly THEN NormalAxis(axis) ELSE NonzeroAxis(axis)
\* what the claim says of the objects that were set, for the axes admitted
SetAsClaimed(normalOnly) ==
    /\ \A o \in ObjNames :
          (IsSet(o) /\ Admitted(AxisOf(o), normalOnly)) =>
              NearUnitTimes(rot[o].val, arg.val.angle, arg.val.dir)
    /\ (IsSet("a") /\ IsSet("b") /\ Admitted(AxisOf("a"), normalOnly) /\ Admitted(AxisOf("b"), normalOnly)) =>
          /\ \A c \in 1 .. 3 :
                FLe(FAbs(FSub(rot["a"].val[c], rot["b"].val[c])),
                    FMul(FMul(FromInt(4), Epsilon), FAbs(arg.val.angle)))
          /\ arg.val.factor.m = Pow2(Digits - 1) => rot["a"].val = rot["b"].val
    /\ (IsSet("a") /\ IsSet("made")) => rot["made"].val = rot["a"].val

SeedCount == 2
MaxCalls == 2
Seeds == 1 .. SeedCount

\* an initializer that runs every time control passes the declaration
NeedsConstructionAlways(g) == TRUE
\* the initializer of a function-local static runs the first time only
NeedsConstruction(g) == g.state = "none"
\* static std::mt19937 rng{std::random_device{}()};
StaticInit(g, seed) ==
    IF NeedsConstruction(g) THEN [state |-> "live", seed |-> seed, pos |-> 0] ELSE g
Seeded(log, g, seed) == IF NeedsConstruction(g) THEN Append(log, seed) ELSE log
\* the distribution invokes the generator, which moves on
Advance(g, n) == [g EXCEPT !.pos = @ + n]

\* std::nextafter(b, std::numeric_limits<Real>::max())
ClosedB(b) == NextAfter(b, MaxReal)
\* values the distribution over [a, b) is tried on
Candidates(a, b) == { a, FDiv(FAdd(a, b), Two), NextAfter(b, a), b }
\* std::uniform_real_distribution<Real>{a, b}: requires a <= b and b - a <= max
\* and returns some r with a <= r < b; nothing is promised where no such r
\* exists or the requirement fails
Distribution(a, b) ==
    IF FLt(a, b) /\ IsFin(FSub(b, a))
    THEN { r \in Candidates(a, b) : FLe(a, r) /\ FLt(r, b) }
    ELSE Candidates(a, b) \cup { NaN, Inf(1) }
\* the record of one call of uniformRandom<Real>(a, b) returning r
Draw(T, a, b, r, from) ==
    [op |-> "uniform", type |-> T, a |-> a, b |-> b, closed_b |-> ClosedB(b), out |-> r,
     support |-> Distribution(a, ClosedB(b)), from |-> from]

\* the arguments of a run
RealPairs ==
    { <<FNeg(One), One>>, <<Zero(1), Zero(1)>>, <<One, Two>>, <<Zero(1), MaxReal>>,
      <<FNeg(Two), MaxReal>> }
ApiCalls == Cardinality({ i \in DOMAIN calls : calls[i].from = "user" })

CallUniformRandom ==
    /\ arg.kind = "random" /\ ApiCalls < MaxCalls
    /\ \E T \in ScalarTypes, seed \in Seeds :
          /\ rng' = [rng EXCEPT ![T] = Advance(StaticInit(rng[T], seed), 1)]
          /\ seedings' = [seedings EXCEPT ![T] = Seeded(@, rng[T], seed)]
          /\ \E r \in Distribution(arg.val[1], ClosedB(arg.val[2])) :
                calls' = Append(calls, Draw(T, arg.val[1], arg.val[2], r, "user"))
    /\ UNCHANGED <<arg, leafVars, threadVars>>

\* what s, and the two factors of 2 pi, are drawn as
UnitDraws == { <<Zero(1), Zero(1), One>>, <<Half, One, Zero(1)>>, <<One, Half, Half>> }
TwoPi == FMul(Two, Pi)
\* the quaternion of randomQuaternion from its three draws
QuaternionOf[s1 \in Scalar, s2 \in Scalar, t1 \in Scalar, t2 \in Scalar] ==
    Quat(FMul(FCos(t2), s2), FMul(FSin(t1), s1), FMul(FCos(t1), s1), FMul(FSin(t2), s2))
KuffnerQuaternion(s, u1, u2) ==
    QuaternionOf[FSqrt(FSub(One, s)), FSqrt(s), FMul(TwoPi, u1), FMul(TwoPi, u2)]
\* randomQuaternion<Real>(): three calls of uniformRandom<Real>(0, 1)
CallRandomQuaternion ==
    /\ arg.kind = "random" /\ ApiCalls < MaxCalls
    /\ \E T \in ScalarTypes, seed \in Seeds, d \in UnitDraws :
          /\ \A k \in 1 .. 3 : d[k] \in Distribution(Zero(1), ClosedB(One))
          /\ rng' = [rng EXCEPT ![T] = Advance(StaticInit(rng[T], seed), 3)]
          /\ seedings' = [seedings EXCEPT ![T] = Seeded(@, rng[T], seed)]
          /\ calls' = calls \o << Draw(T, Zero(1), One, d[1], "randomQuaternion"),
                                  Draw(T, Zero(1), One, d[2], "randomQuaternion"),
                                  Draw(T, Zero(1), One, d[3], "randomQuaternion"),
                                  [op |-> "quat", type |-> T, from |-> "user",
                                   out |-> KuffnerQuaternion(d[1], d[2], d[3])] >>
    /\ UNCHANGED <<arg, leafVars, threadVars>>

InitRandom ==
    /\ arg \in Input("random", RealPairs)
    /\ calls = <<>>
    /\ rng = [T \in ScalarTypes |-> NoGenerator]
    /\ seedings = [T \in ScalarTypes |-> <<>>]
    /\ NoLeaf /\ NoThreads
NextRandom ==
    \/ CallUniformRandom
    \/ CallRandomQuaternion
SpecRandom == InitRandom /\ [][NextRandom]_vars

(***************************************************************************)
(* Properties of the random number utilities                               *)
(***************************************************************************)
\* C6: every value uniformRandom(a, b) returns lies in [a, b], and b itself is
\* among the values the call can return, for every a <= b.
C6_ClosedInterval ==
    \A i \in CallsOf("uniform") :
        /\ FLe(calls[i].a, calls[i].out) /\ FLe(calls[i].out, calls[i].b)
        /\ calls[i].b \in calls[i].support
\* the same for b below the largest finite value
C6_ClosedBelowMax ==
    \A i \in CallsOf("uniform") :
        calls[i].b # MaxReal =>
            /\ FLe(calls[i].a, calls[i].out) /\ FLe(calls[i].out, calls[i].b)
            /\ calls[i].b \in calls[i].support

DrawsOf(T) == Cardinality({ i \in CallsOf("uniform") : calls[i].type = T })
Live == { T \in ScalarTypes : rng[T].state = "live" }
\* C7 as stated: once a call was made there is exactly one generator, which
\* was seeded exactly once, whatever the scalar types of the calls.
C7_SingleGenerator ==
    calls # <<>> =>
        /\ Cardinality(Live) = 1
        /\ \A T \in Live :
              Len(seedings[T]) = 1 /\ rng[T].pos = Cardinality(CallsOf("uniform"))
\* C7, amended: there is one generator for each scalar type that was called
\* with; it was seeded exactly once, on the first call with that type, and
\* every call with that type drew from it and advanced it.
C7_OneGeneratorPerType ==
    \A T \in ScalarTypes :
        IF DrawsOf(T) = 0
        THEN rng[T] = NoGenerator /\ seedings[T] = <<>>
        ELSE /\ rng[T].state = "live"
             /\ seedings[T] = << rng[T].seed >>
             /\ rng[T].pos = DrawsOf(T)
C7_BothTypesCalled ==
    /\ Live = ScalarTypes
    /\ rng["float"].seed # rng["double"].seed
    /\ rng["float"].pos = 3 /\ rng["double"].pos = 1
    /\ Len(seedings["float"]) = 1 /\ Len(seedings["double"]) = 1

(***************************************************************************)
(* Two threads calling into the library without synchronization           *)
(***************************************************************************)
\* one slot of automatic storage for all threads
SlotShared(t) == 1
\* the automatic storage of a call belongs to the thread that makes it
Slot(t) == t
\* each thread works on a RelativeRotation object of its own
ObjOf(t) == IF t = 1 THEN "a" ELSE "b"
Other(t) == 3 - t

\* what a thread is given to do
ThreadTasks ==
    { [op |-> "uniform"] }
    \cup { [op |-> "exp", v |-> v] : v \in { IntVec(<<1, 0, 0>>), VScale(P2(-8), IntVec(<<0, 3, -4>>)) } }
    \cup { [op |-> "jac2", v |-> VScale(Half, IntVec(<<1, 2, 2>>))] }
    \cup { [op |-> "set", angle |-> g, axis |-> IntVec(<<2, -3, 6>>)] : g \in { One, FNeg(HalfPi) } }
Task(t) == arg.val[t]
\* the result of the task when nothing else runs
Sequentially(task) ==
    IF task.op = "exp" THEN quaternionFromRotationVector(task.v)
    ELSE IF task.op = "jac2" THEN jacobianOfRotationLogMap2(Identity3, task.v)
    ELSE setFromAngleAndAxis(task.angle, task.axis, build.guarded)

\* the declaration of the static generator: the initialization of a
\* function-local static is done by one thread while the others wait
ThreadStaticInit(t) ==
    /\ pc[t] = "start" /\ Task(t).op = "uniform"
    /\ \E seed \in Seeds :
          /\ rng' = [rng EXCEPT !["double"] = StaticInit(@, seed)]
          /\ seedings' = [seedings EXCEPT !["double"] = Seeded(@, rng["double"], seed)]
    /\ pc' = [pc EXCEPT ![t] = "read"]
    /\ UNCHANGED <<kernelVars, leafVars, frame>>
\* the generator reads its state
ThreadRead(t) ==
    /\ pc[t] = "read"
    /\ frame' = [frame EXCEPT ![Slot(t)].seen = rng["double"].pos]
    /\ pc' = [pc EXCEPT ![t] = "write"]
    /\ UNCHANGED <<kernelVars, leafVars, randomVars>>
\* what the state may be after a write that raced with the other thread's
Raced(seen, now) == { seen + 1, now + 1, now }
\* the generator writes its state back and uniformRandom(0, 1) returns
ThreadWrite(t) ==
    /\ pc[t] = "write"
    /\ \E next \in IF rng["double"].pos = frame[Slot(t)].seen /\ pc[Other(t)] # "write"
                   THEN { frame[Slot(t)].seen + 1 }
                   ELSE Raced(frame[Slot(t)].seen, rng["double"].pos) :
          rng' = [rng EXCEPT !["double"].pos = next]
    /\ \E r \in Distribution(Zero(1), ClosedB(One)) :
          frame' = [frame EXCEPT ![Slot(t)].out = r]
    /\ pc' = [pc EXCEPT ![t] = "done"]
    /\ UNCHANGED <<kernelVars, leafVars, seedings>>
\* a kernel computes its first local from its argument
ThreadKernelEnter(t) ==
    /\ pc[t] = "start" /\ Task(t).op \in {"exp", "jac2"}
    /\ frame' = [frame EXCEPT ![Slot(t)].v = Task(t).v, ![Slot(t)].n2 = SquaredNorm(Task(t).v)]
    /\ pc' = [pc EXCEPT ![t] = "branch"]
    /\ UNCHANGED <<kernelVars, leafVars, randomVars>>
\* and returns the value of the branch the local selects
ThreadKernelReturn(t) ==
    /\ pc[t] = "branch"
    /\ frame' = [frame EXCEPT ![Slot(t)].out =
                    IF Task(t).op = "exp"
                    THEN ExpAngle2[frame[Slot(t)].v, frame[Slot(t)].n2]
                    ELSE Jac2Branch[Identity3, frame[Slot(t)].v,
                                    crossMatrix(frame[Slot(t)].v), frame[Slot(t)].n2]]
    /\ pc' = [pc EXCEPT ![t] = "done"]
    /\ UNCHANGED <<kernelVars, leafVars, randomVars>>
\* RelativeRotation r; on the thread's own object
ThreadConstruct(t) ==
    /\ pc[t] = "start" /\ Task(t).op = "set"
    /\ \E w \in Indeterminate :
          rot' = [rot EXCEPT ![ObjOf(t)] = Object("indeterminate", w, <<>>)]
    /\ pc' = [pc EXCEPT ![t] = "set"]
    /\ UNCHANGED <<kernelVars, build, randomVars, frame>>
\* r.setFromAngleAndAxis(angle, axis);
ThreadSet(t) ==
    /\ pc[t] = "set"
    /\ rot' = [rot EXCEPT ![ObjOf(t)] =
                  Object("set",
                         setFromAngleAndAxis(Task(t).angle, Task(t).axis, build.guarded),
                         rot[ObjOf(t)].val)]
    /\ pc' = [pc EXCEPT ![t] = "done"]
    /\ UNCHANGED <<kernelVars, build, randomVars, frame>>

InitThreads ==
    /\ arg \in Input("threads", [Threads -> ThreadTasks])
    /\ calls = <<>>
    /\ pc = [t \in Threads |-> "start"]
    /\ frame = [t \in Threads |-> NoFrame]
    /\ rot = [o \in ObjNames |-> NoObject]
    /\ build \in [guarded : BOOLEAN]
    /\ NoRandom
NextThreads ==
    \E t \in Threads :
        \/ ThreadStaticInit(t)
        \/ ThreadRead(t)
        \/ ThreadWrite(t)
        \/ ThreadKernelEnter(t)
        \/ ThreadKernelReturn(t)
        \/ ThreadConstruct(t)
        \/ ThreadSet(t)
SpecThreads == InitThreads /\ [][NextThreads]_vars

(***************************************************************************)
(* Properties of concurrent use                                            *)
(***************************************************************************)
Drawing == { t \in Threads : Task(t).op = "uniform" }
\* C9: the generator is the only state threads share.  Its one-time
\* initialization happens exactly once however the threads interleave; a
\* thread that ran a kernel or set its own RelativeRotation has the result
\* of running alone; threads that draw no numbers leave the generator alone.
C9_OnlyGeneratorShared ==
    /\ Len(seedings["double"]) <= 1
    /\ (\E t \in Drawing : pc[t] # "start") =>
          (rng["double"].state = "live" /\ seedings["double"] = << rng["double"].seed >>)
    /\ Drawing = {} => rng["double"] = NoGenerator
    /\ rng["float"] = NoGenerator
    /\ \A t \in Threads :
          pc[t] = "done" =>
              /\ Task(t).op \in {"exp", "jac2"} => frame[Slot(t)].out = Sequentially(Task(t))
              /\ Task(t).op = "set" => rot[ObjOf(t)].val = Sequentially(Task(t))
\* both threads have read the same generator state and neither has written
C9_RaceReached ==
    /\ Drawing = Threads
    /\ \A t \in Threads : pc[t] = "write"
    /\ frame[Slot(1)].seen = frame[Slot(2)].seen
    /\ Len(seedings["double"]) = 1
====
